---- MODULE Spec2Model ----
(***************************************************************************)
(* Model of the T2DM Socratic tutor backend (server/src/index.js):         *)
(*   - chunkText, the overlapping-window text chunker;                     *)
(*   - the adaptive difficulty computation of /api/generate-adaptive-case; *)
(*   - the per-user in-memory store userStores and the request handlers    *)
(*     /api/upload, /api/chat, /api/generate-case,                         *)
(*     /api/generate-adaptive-case and /api/evaluate-decision, each        *)
(*     handler split at its await points.                                  *)
(* Three specifications share the variables: Spec (the server),            *)
(* SpecChunk (chunkText run as a loop) and SpecDiff (the difficulty        *)
(* computation applied to drawn inputs).                                   *)
(***************************************************************************)
EXTENDS Integers, Sequences, FiniteSets, TLC

VARIABLES openai, userStores, writes, reqs, ck, df, cs,
          app, inflight, learningSessions

vars == <<openai, userStores, writes, reqs, ck, df, cs,
         app, inflight, learningSessions>>

(***************************************************************************)
(* Generic helpers                                                         *)
(***************************************************************************)
Min(a, b) == IF a < b THEN a ELSE b

Max(a, b) == IF a > b THEN a ELSE b

SeqsUpTo(S, n) == UNION { [1..k -> S] : k \in 0..n }

(***************************************************************************)
(* chunkText as a loop (index.js 42-53), on literal character sequences    *)
(***************************************************************************)
\* bounds of the chunker specification
MaxTextLen == 4

MaxChunkArg == 3

MaxChunks == 6

Alphabet == {"a", "b"}

\* String.prototype.slice(a, b): negative indices count from the end
JsSlice(s, a, b) ==
  LET n    == Len(s)
      from == IF a < 0 THEN Max(n + a, 0) ELSE Min(a, n)
      to   == IF b < 0 THEN Max(n + b, 0) ELSE Min(b, n)
  IN  IF from < to THEN SubSeq(s, from + 1, to) ELSE <<>>

ChunkIdle == [text |-> <<>>, chunkSize |-> 0, overlap |-> 0, start |-> 0,
              chunks |-> <<>>, pc |-> "idle"]

ChunkInit ==
  ck \in { [text |-> t, chunkSize |-> s, overlap |-> o, start |-> 0,
            chunks |-> <<>>, pc |-> "loop"] :
           t \in SeqsUpTo(Alphabet, MaxTextLen),
           s \in 1..MaxChunkArg, o \in 0..MaxChunkArg }

\* variants of the step: no overlap kept, one character skipped, one
\* character too far back
NextStart_noOverlap(end, overlap) == end

NextStart_skip(end, overlap) == end - overlap + 1

NextStart_back(end, overlap) == end - overlap - 1

\* the position the loop continues from after a chunk ending at end
NextStart(end, overlap) == end - overlap

\* variant of the loop whose condition is start <= text.length
ChunkIter_le ==
  /\ ck.pc = "loop"
  /\ ck.start <= Len(ck.text)
  /\ Len(ck.chunks) < MaxChunks
  /\ LET end   == Min(ck.start + ck.chunkSize, Len(ck.text))
         chunk == JsSlice(ck.text, ck.start, end)
     IN  ck' = [ck EXCEPT !.chunks = Append(@, chunk),
                          !.start  = IF end = Len(ck.text) THEN @
                                     ELSE NextStart(end, ck.overlap),
                          !.pc     = IF end = Len(ck.text) THEN "done"
                                     ELSE "loop"]
  /\ UNCHANGED <<openai, userStores, writes, reqs, df,
               app, inflight, learningSessions, cs>>

\* one iteration of the while loop: push a chunk, then break or step
ChunkIter ==
  /\ ck.pc = "loop"
  /\ ck.start < Len(ck.text)
  /\ Len(ck.chunks) < MaxChunks
  /\ LET end   == Min(ck.start + ck.chunkSize, Len(ck.text))
         chunk == JsSlice(ck.text, ck.start, end)
     IN  ck' = [ck EXCEPT !.chunks = Append(@, chunk),
                          !.start  = IF end = Len(ck.text) THEN @
                                     ELSE NextStart(end, ck.overlap),
                          !.pc     = IF end = Len(ck.text) THEN "done"
                                     ELSE "loop"]
  /\ UNCHANGED <<openai, userStores, writes, reqs, df,
               app, inflight, learningSessions, cs>>

\* the while condition is false: return chunks
ChunkExit ==
  /\ ck.pc = "loop"
  /\ ~(ck.start < Len(ck.text))
  /\ ck' = [ck EXCEPT !.pc = "done"]
  /\ UNCHANGED <<openai, userStores, writes, reqs, df,
               app, inflight, learningSessions, cs>>

(***************************************************************************)
(* Adaptive difficulty (index.js 378, 397-408).  Scores are in tenths.     *)
(***************************************************************************)
\* bound of the difficulty specification
MaxHist == 6

RecentWindow == 5

MinDifficulty == 1

MaxDifficulty == 5

DefaultDifficulty == 3

\* 0.8 and 0.5 in tenths
RaiseAbove == 8

LowerBelow == 5

NoScore == -1

ScoreVals == {2, 8, 9, NoScore}

LevelInputs == (MinDifficulty - 1)..(MaxDifficulty + 1)

\* p.score || 0
ScoreOr0(p) == IF p.score = NoScore THEN 0 ELSE p.score

\* performanceHistory.slice(-5)
RecentPerformance(h) ==
  SubSeq(h, Len(h) - Min(RecentWindow, Len(h)) + 1, Len(h))

RECURSIVE SumScores(_)
SumScores(h) ==
  IF h = <<>> THEN 0 ELSE ScoreOr0(Head(h)) + SumScores(Tail(h))

\* mutant: >= instead of >
AvgAbove_ge(sum, n, t) == sum >= t * n

\* avgScore > 0.8, avgScore < 0.5, on the exact mean sum/n
AvgAbove(sum, n, t) == sum > t * n

AvgBelow(sum, n, t) == sum < t * n

AdaptiveDifficulty(difficultyLevel, performanceHistory) ==
  IF Len(performanceHistory) > 0
  THEN LET recent == RecentPerformance(performanceHistory)
           sum    == SumScores(recent)
           n      == Len(recent)
       IN  IF AvgAbove(sum, n, RaiseAbove)
           THEN Min(MaxDifficulty, difficultyLevel + 1)
           ELSE IF AvgBelow(sum, n, LowerBelow)
                THEN Max(MinDifficulty, difficultyLevel - 1)
                ELSE difficultyLevel
  ELSE difficultyLevel

DiffIdle == [difficultyLevel |-> 0, performanceHistory |-> <<>>,
             result |-> 0, pc |-> "idle"]

DiffInit ==
  df \in { [difficultyLevel |-> l, performanceHistory |-> h,
            result |-> 0, pc |-> "call"] :
           l \in LevelInputs,
           h \in SeqsUpTo({ [score |-> s] : s \in ScoreVals }, MaxHist) }

DiffCompute ==
  /\ df.pc = "call"
  /\ df' = [df EXCEPT !.result = AdaptiveDifficulty(df.difficultyLevel,
                                                     df.performanceHistory),
                      !.pc = "done"]
  /\ UNCHANGED <<openai, userStores, writes, reqs, ck,
               app, inflight, learningSessions, cs>>

(***************************************************************************)
(* Text.  A string is modelled by its length and the words it contains     *)
(* (word, whether it has upper-case letters, length, offset); everything    *)
(* between the words is filler.                                            *)
(***************************************************************************)
EmptyText == [len |-> 0, occ |-> {}]

Occ(w, up, len, at) == [w |-> w, up |-> up, len |-> len, at |-> at]

\* a + b on strings
TextConcat(a, b) ==
  [len |-> a.len + b.len,
   occ |-> a.occ \cup { [o EXCEPT !.at = @ + a.len] : o \in b.occ }]

\* text.slice(from, to) for 0 <= from <= to <= text.len: a word cut by a
\* boundary is no longer an occurrence of that word
TextSlice(t, from, to) ==
  [len |-> to - from,
   occ |-> { [o EXCEPT !.at = @ - from] :
             o \in { x \in t.occ : from <= x.at /\ x.at + x.len <= to } }]

\* variant that leaves the case of the text as it is
ToLowerCase_keepCase(t) == t

\* String.prototype.toLowerCase
ToLowerCase(t) == [t EXCEPT !.occ = { [o EXCEPT !.up = FALSE] : o \in @ }]

\* `\n\n[FILE: ${file.originalname}]\n`: 2 + 7 + name + 2 characters, the
\* word FILE at offset 3
FileMarker(file) ==
  [len |-> 11 + file.nameLen, occ |-> { Occ("file", TRUE, 4, 3) }]

\* the uploaded files: originalname and what pdfParse extracts from the buffer
FNoText == [name |-> "scan.pdf", nameLen |-> 8, text |-> EmptyText]

FNote ==
  [name |-> "note.pdf", nameLen |-> 8,
   text |-> [len |-> 700, occ |-> { Occ("metformin", TRUE, 9, 0) }]]

FGuide ==
  [name |-> "guide.pdf", nameLen |-> 9,
   text |-> [len |-> 6800,
             occ |-> { Occ("metformin", FALSE, 9, 2500),
                       Occ("insulin", FALSE, 7, 1190),
                       Occ("insulin", TRUE, 7, 5600) }]]

\* with its marker 2500 characters, three chunks: Insulin in the third
\* only, Metformin in the overlap of the first two
FSummary ==
  [name |-> "summary.pdf", nameLen |-> 11,
   text |-> [len |-> 2478,
             occ |-> { Occ("metformin", TRUE, 9, 1078),
                       Occ("insulin", TRUE, 7, 2278) }]]

FileLists == { <<>>, <<FNoText>>, <<FNote>>, <<FNoText, FGuide>> }

(***************************************************************************)
(* chunkText with its default arguments (index.js 42-53, called at 96)     *)
(***************************************************************************)
DefaultChunkSize == 1200

DefaultOverlap == 200

\* the <<start, end>> windows the loop of chunkText visits from start
RECURSIVE ChunkBounds(_, _, _, _)
ChunkBounds(start, len, chunkSize, overlap) ==
  IF ~(start < len) THEN <<>>
  ELSE LET end == Min(start + chunkSize, len)
       IN  IF end = len THEN << <<start, end>> >>
           ELSE << <<start, end>> >> \o
                ChunkBounds(NextStart(end, overlap), len, chunkSize, overlap)

chunkText(text) ==
  LET b == ChunkBounds(0, text.len, DefaultChunkSize, DefaultOverlap)
  IN  [i \in 1..Len(b) |-> TextSlice(text, b[i][1], b[i][2])]

(***************************************************************************)
(* Embeddings and cosine similarity (index.js 58-70)                       *)
(***************************************************************************)
VecDomain == << <<1, 0>>, <<0, 1>>, <<-1, 0>> >>

\* the embedding service is a black box: a response is drawn by a seed
Seeds == {0, 1}

\* embeddingsResponse.data.map(d => d.embedding): one vector per input
EmbeddingData(n, seed) ==
  [i \in 1..n |-> VecDomain[((i * seed) % Len(VecDomain)) + 1]]

QueryVectors == { VecDomain[i] : i \in 1..Len(VecDomain) }

RECURSIVE DotFrom(_, _, _)
DotFrom(a, b, i) ==
  IF i > Len(a) THEN 0 ELSE a[i] * b[i] + DotFrom(a, b, i + 1)

\* a similarity is sgn * sqrt(num / den), kept exact
CosZero == [sgn |-> 0, num |-> 0, den |-> 1]

\* variant without the length test: the loop runs over a, a missing b[i]
\* makes normB NaN and the result 0, a longer b is cut to the length of a
cosineSimilarity_noLengthTest(a, b) ==
  IF Len(a) > Len(b) THEN CosZero
  ELSE LET bb    == SubSeq(b, 1, Len(a))
           dot   == DotFrom(a, bb, 1)
           normA == DotFrom(a, a, 1)
           normB == DotFrom(bb, bb, 1)
       IN  IF normA = 0 \/ normB = 0 THEN CosZero
           ELSE IF dot = 0 THEN CosZero
           ELSE [sgn |-> IF dot > 0 THEN 1 ELSE -1,
                 num |-> dot * dot, den |-> normA * normB]

cosineSimilarity(a, b) ==
  IF Len(a) # Len(b) THEN CosZero
  ELSE LET dot   == DotFrom(a, b, 1)
           normA == DotFrom(a, a, 1)
           normB == DotFrom(b, b, 1)
       IN  IF normA = 0 \/ normB = 0 THEN CosZero
           ELSE IF dot = 0 THEN CosZero
           ELSE [sgn |-> IF dot > 0 THEN 1 ELSE -1,
                 num |-> dot * dot, den |-> normA * normB]

\* bound of the similarity specification: the longest vector
MaxVecLen == 2

\* the components the vectors of the similarity specification are made of
Components == {-1, 0, 1}

CosIdle == [a |-> <<>>, b |-> <<>>, result |-> CosZero, pc |-> "idle"]

CosInit ==
  cs \in { [a |-> a, b |-> b, result |-> CosZero, pc |-> "call"] :
           a \in SeqsUpTo(Components, MaxVecLen),
           b \in SeqsUpTo(Components, MaxVecLen) }

\* one call of cosineSimilarity
CosCompute ==
  /\ cs.pc = "call"
  /\ cs' = [cs EXCEPT !.result = cosineSimilarity(cs.a, cs.b), !.pc = "done"]
  /\ UNCHANGED <<openai, userStores, writes, reqs, ck, df,
                 app, inflight, learningSessions>>

\* an integer score in the same exact representation
FromInt(n) ==
  [sgn |-> IF n > 0 THEN 1 ELSE IF n < 0 THEN -1 ELSE 0,
   num |-> n * n, den |-> 1]

\* x < y
ScoreLess(x, y) ==
  IF x.sgn # y.sgn THEN x.sgn < y.sgn
  ELSE IF x.sgn > 0 THEN x.num * y.den < y.num * x.den
  ELSE IF x.sgn < 0 THEN x.num * y.den > y.num * x.den
  ELSE FALSE

\* s.score > 0
ScorePositive(x) == x.sgn > 0

(***************************************************************************)
(* Ranking: scored.sort((a, b) => b.score - a.score), slice, filter, map   *)
(***************************************************************************)
\* insert x behind every element that is not smaller (the sort is stable)
RECURSIVE InsertDesc(_, _)
InsertDesc(x, sorted) ==
  IF sorted = <<>> THEN <<x>>
  ELSE IF ScoreLess(Head(sorted).score, x.score) THEN <<x>> \o sorted
  ELSE <<Head(sorted)>> \o InsertDesc(x, Tail(sorted))

RECURSIVE SortDescFrom(_, _, _)
SortDescFrom(scored, i, acc) ==
  IF i > Len(scored) THEN acc
  ELSE SortDescFrom(scored, i + 1, InsertDesc(scored[i], acc))

SortDesc(scored) == SortDescFrom(scored, 1, <<>>)

RECURSIVE FilterPositive(_)
FilterPositive(scored) ==
  IF scored = <<>> THEN <<>>
  ELSE IF ScorePositive(Head(scored).score)
       THEN <<Head(scored)>> \o FilterPositive(Tail(scored))
       ELSE FilterPositive(Tail(scored))

\* store.chunks[s.idx]; JavaScript yields undefined outside the array
UndefinedChunk == [len |-> -1, occ |-> {}]

ChunkAt(chunks, idx) ==
  IF idx \in DOMAIN chunks THEN chunks[idx] ELSE UndefinedChunk

\* scored.sort(...).slice(0, k).filter(s => s.score > 0).map(s => chunks[s.idx])
TopPositive(scored, k, chunks) ==
  LET sorted == SortDesc(scored)
      topK   == SubSeq(sorted, 1, Min(k, Len(sorted)))
      kept   == FilterPositive(topK)
  IN  [j \in 1..Len(kept) |-> ChunkAt(chunks, kept[j].idx)]

\* store.vectors.map((vec, idx) => ({idx, score: cosineSimilarity(q, vec)}))
ScoreByVectors(vectors, queryVector) ==
  [i \in 1..Len(vectors) |->
     [idx |-> i, score |-> cosineSimilarity(queryVector, vectors[i])]]

(***************************************************************************)
(* Keyword scoring (index.js 133-146).  The content of a message is the    *)
(* sequence of its whitespace-separated tokens; valid tells whether        *)
(* new RegExp(token) compiles.                                             *)
(***************************************************************************)
Tok(w, up, len, valid) == [w |-> w, up |-> up, len |-> len, valid |-> valid]

TokMetformin == Tok("metformin", TRUE, 9, TRUE)

TokStart == Tok("start", FALSE, 5, TRUE)

TokOf == Tok("of", FALSE, 2, TRUE)

TokBad == Tok("(hba1c", FALSE, 6, FALSE)

TokInsulin == Tok("insulin", TRUE, 7, TRUE)

Contents == { <<TokStart, TokMetformin>>, <<TokOf>>, <<TokBad>> }

\* query.toLowerCase().split(/\s+/).filter(w => w.length > 2)
QueryWords(content) ==
  SelectSeq([i \in 1..Len(content) |-> [content[i] EXCEPT !.up = FALSE]],
            LAMBDA t : t.len > 2)

\* (chunkLower.match(new RegExp(word, 'g')) || []).length
Matches(chunkLower, word) ==
  Cardinality({ o \in chunkLower.occ : o.w = word.w /\ o.up = word.up })

RECURSIVE SumMatches(_, _)
SumMatches(chunkLower, words) ==
  IF words = <<>> THEN 0
  ELSE Matches(chunkLower, Head(words)) + SumMatches(chunkLower, Tail(words))

\* new RegExp(word, 'g') throws a SyntaxError inside the map callback
ScoreThrows(chunks, content) ==
  /\ Len(chunks) > 0
  /\ \E i \in 1..Len(QueryWords(content)) : ~QueryWords(content)[i].valid

scoreChunksByText(chunks, content) ==
  [i \in 1..Len(chunks) |->
     [idx |-> i,
      score |-> FromInt(SumMatches(ToLowerCase(chunks[i]),
                                   QueryWords(content)))]]

(***************************************************************************)
(* Server state: userStores (index.js 17), openai (20-25), requests        *)
(***************************************************************************)
Users == {"u1", "u2"}

NoUser == "none"

Slots == {"r1", "r2"}

\* bound: store writes in one run
MaxWrites == 2

ChatTopK == 6

EvalTopK == 5

FallbackChunks == 3

CaseSample == 10

AdaptiveSample == 15

\* "\n\n---\n\n"
SeparatorLen == 7

\* userStores.get(userId) === undefined; ver numbers the store writes
NoEntry == [set |-> FALSE, chunks |-> <<>>, vectors |-> <<>>, ver |-> 0]

Msg(role, content) == [role |-> role, content |-> content]

NoLevel == -1

\* the requests the clients send: uploads for both users, reads for u1
ReadUsers == {"u1"}

UploadInputs ==
  { [userId |-> NoUser, files |-> <<FNote>>],
    [userId |-> "u1", files |-> <<FSummary>>],
    [userId |-> "u2", files |-> <<FNote>>] } \cup
  { [userId |-> "u1", files |-> f] : f \in FileLists }

ChatIn(u, m, mode) == [userId |-> u, messages |-> m, mode |-> mode]

ChatInputs ==
  { ChatIn(NoUser, <<Msg("user", <<TokOf>>)>>, "none") } \cup
  UNION { { ChatIn(u, <<>>, "none"),
            ChatIn(u, <<Msg("assistant", <<TokStart>>)>>, "none"),
            ChatIn(u, <<Msg("user", <<TokStart, TokMetformin>>)>>, "feedback"),
            ChatIn(u, <<Msg("user", <<TokOf>>)>>, "questions"),
            ChatIn(u, <<Msg("user", <<TokInsulin>>)>>, "questions"),
            ChatIn(u, <<Msg("assistant", <<TokStart>>),
                        Msg("user", <<TokBad>>)>>, "none") } : u \in ReadUsers }

AdaptiveIn(u, l, h) ==
  [userId |-> u, difficultyLevel |-> l, performanceHistory |-> h]

AdaptiveInputs ==
  { AdaptiveIn(NoUser, NoLevel, <<>>) } \cup
  UNION { { AdaptiveIn(u, NoLevel, <<>>),
            AdaptiveIn(u, 1, <<[score |-> 2]>>),
            AdaptiveIn(u, 5, <<[score |-> 9]>>),
            AdaptiveIn(u, 6, <<>>) } : u \in ReadUsers }

EvalInputs ==
  { [userId |-> NoUser, caseData |-> TRUE] } \cup
  { [userId |-> u, caseData |-> c] : u \in ReadUsers, c \in BOOLEAN }

ReqIdle ==
  [kind |-> "none", pc |-> "idle", userId |-> NoUser, files |-> <<>>,
   messages |-> <<>>, mode |-> "none", caseData |-> FALSE,
   difficultyLevel |-> 0, performanceHistory |-> <<>>,
   i |-> 0, combinedText |-> EmptyText, chunks |-> <<>>, vectors |-> <<>>,
   embedErr |-> FALSE, store |-> NoEntry, contextPieces |-> <<>>,
   contextMessage |-> "", modeInstruction |-> "", chatMessages |-> <<>>,
   adaptiveDifficulty |-> 0,
   vecVer |-> 0, ctxVer |-> 0, calls |-> 0, callFailed |-> FALSE,
   arrival |-> "none",
   status |-> 0, msg |-> "", chunkCount |-> 0]

\* res.status(status).json(...); the handler's locals go out of scope
Respond(q, status, msg) ==
  [q EXCEPT !.pc = "done", !.status = status, !.msg = msg,
            !.files = <<>>, !.i = 0, !.combinedText = EmptyText,
            !.chunks = <<>>, !.vectors = <<>>, !.store = NoEntry,
            !.contextPieces = <<>>, !.chatMessages = <<>>,
            !.vecVer = 0, !.ctxVer = 0]

\* userStores.get(userId)
StoreGet(stores, userId) == IF userId \in Users THEN stores[userId] ELSE NoEntry

\* mutant: only a missing entry counts, an entry without chunks passes
NoKnowledge_unsetOnly(store) == ~store.set

\* !store || !store.chunks || store.chunks.length === 0
NoKnowledge(store) == ~store.set \/ Len(store.chunks) = 0

\* a free slot takes an upload; reads (which never write shared state, so
\* do not interact with each other) are served on ReadSlots only
ReadSlots == {"r1"}

CanArrive(r) == reqs[r].pc = "idle"

CanArriveRead(r) == CanArrive(r) /\ r \in ReadSlots

UploadsInFlight ==
  Cardinality({ r \in Slots : reqs[r].kind = "upload" /\
                              reqs[r].pc \in {"parse", "embed"} })

(***************************************************************************)
(* POST /api/upload (index.js 76-128)                                      *)
(***************************************************************************)
\* mutant: the new chunks and vectors are appended to the replaced entry
UploadEntry_merge(old, chunks, vectors, ver) ==
  [set |-> TRUE, chunks |-> old.chunks \o chunks,
   vectors |-> old.vectors \o vectors, ver |-> ver]

\* mutant: without new vectors the vectors of the replaced entry are kept
UploadEntry_keepVectors(old, chunks, vectors, ver) ==
  [set |-> TRUE, chunks |-> chunks,
   vectors |-> IF Len(vectors) = 0 THEN old.vectors ELSE vectors,
   ver |-> ver]

\* mutant: the first assignment wins, a later upload keeps an entry once it is there
UploadEntry_firstWins(old, chunks, vectors, ver) ==
  IF old.set THEN old
  ELSE [set |-> TRUE, chunks |-> chunks, vectors |-> vectors, ver |-> ver]

\* the value of userStores.set(userId, {chunks, vectors}); old is the entry
\* being replaced
UploadEntry(old, chunks, vectors, ver) ==
  [set |-> TRUE, chunks |-> chunks, vectors |-> vectors, ver |-> ver]

\* the entries of the map after userStores.set(userId, entry)
StoreSet(stores, userId, entry) == [stores EXCEPT ![userId] = entry]

\* combinedText ? chunkText(combinedText) : []
UploadChunks(combinedText) ==
  IF combinedText.len > 0 THEN chunkText(combinedText) ELSE <<>>

\* the message of the success response
UploadMessage(vectors) ==
  IF Len(vectors) > 0 THEN "PDFs uploaded and indexed" ELSE "PDFs uploaded, text stored"

\* mutant: an upload without chunks answers but leaves the entry alone
UploadFinish_skipEmpty(r, q) ==
  /\ userStores' = IF Len(q.chunks) = 0 THEN userStores
                   ELSE StoreSet(userStores, q.userId,
                                 UploadEntry(userStores[q.userId], q.chunks,
                                             q.vectors, writes + 1))
  /\ writes' = writes + 1
  /\ reqs' = [reqs EXCEPT ![r] =
                [Respond(q, 200, UploadMessage(q.vectors))
                   EXCEPT !.chunkCount = Len(q.chunks)]]

\* lines 113-123: replace the entry, answer {message, chunkCount}
UploadFinish(r, q) ==
  /\ userStores' = StoreSet(userStores, q.userId,
                            UploadEntry(userStores[q.userId], q.chunks,
                                        q.vectors, writes + 1))
  /\ writes' = writes + 1
  /\ reqs' = [reqs EXCEPT ![r] =
                [Respond(q, 200, UploadMessage(q.vectors))
                   EXCEPT !.chunkCount = Len(q.chunks)]]

\* an upload of the user is suspended at an await
UploadInFlightFor(userId) ==
  \E x \in Slots : /\ reqs[x].kind = "upload" /\ reqs[x].userId = userId
                    /\ reqs[x].pc \in {"parse", "embed"}

\* where an arriving upload stands among the store assignments of its user:
\* before any of them and alone, before any of them beside an upload that is
\* suspended, or after one
UploadArrival(userId) ==
  IF StoreGet(userStores, userId).ver # 0 THEN "later"
  ELSE IF UploadInFlightFor(userId) THEN "second" ELSE "first"

\* lines 78-90: validation, then the first await pdfParse
UploadArrive(r, userId, files) ==
  /\ CanArrive(r)
  /\ writes + UploadsInFlight < MaxWrites
  /\ LET q == [ReqIdle EXCEPT !.kind = "upload", !.userId = userId,
                              !.files = files,
                              !.arrival = UploadArrival(userId)]
     IN  reqs' = [reqs EXCEPT ![r] =
           IF userId = NoUser THEN Respond(q, 400, "Missing x-user-id header")
           ELSE IF Len(files) = 0 THEN Respond(q, 400, "No files uploaded")
           ELSE [q EXCEPT !.pc = "parse"]]
  /\ UNCHANGED <<openai, userStores, writes, ck, df,
               app, inflight, learningSessions, cs>>

\* lines 90-111: pdfParse of file i+1 resolves; after the last file the
\* text is chunked and either the embedding call is awaited or the entry
\* is stored at once
UploadParsed(r) ==
  /\ reqs[r].kind = "upload" /\ reqs[r].pc = "parse"
  /\ LET q0   == reqs[r]
         file == q0.files[q0.i + 1]
         text == IF file.text.len > 0
                 THEN TextConcat(q0.combinedText,
                                 TextConcat(FileMarker(file), file.text))
                 ELSE q0.combinedText
         q1   == [q0 EXCEPT !.i = @ + 1, !.combinedText = text]
         q2   == [q1 EXCEPT !.chunks = UploadChunks(text)]
     IN  IF q1.i < Len(q1.files)
         THEN /\ reqs' = [reqs EXCEPT ![r] = q1]
              /\ UNCHANGED <<userStores, writes,
               app, inflight, learningSessions, cs>>
         ELSE IF openai /\ Len(q2.chunks) > 0
         THEN /\ reqs' = [reqs EXCEPT ![r] =
                            [q2 EXCEPT !.pc = "embed", !.calls = @ + 1]]
              /\ UNCHANGED <<userStores, writes,
               app, inflight, learningSessions, cs>>
         ELSE UploadFinish(r, q2)
  /\ UNCHANGED <<openai, ck, df,
               app, inflight, learningSessions, cs>>

\* pdfParse rejects: the outer catch answers 500 (lines 124-127)
UploadParseThrows(r) ==
  /\ reqs[r].kind = "upload" /\ reqs[r].pc = "parse"
  /\ reqs' = [reqs EXCEPT ![r] = Respond(@, 500, "Failed to process PDFs")]
  /\ UNCHANGED <<openai, userStores, writes, ck, df,
               app, inflight, learningSessions, cs>>

\* lines 102-106, 113-123: the embedding call resolves
UploadEmbedded(r, seed) ==
  /\ reqs[r].kind = "upload" /\ reqs[r].pc = "embed"
  /\ UploadFinish(r, [reqs[r] EXCEPT
                        !.vectors = EmbeddingData(Len(reqs[r].chunks), seed)])
  /\ UNCHANGED <<openai, ck, df,
               app, inflight, learningSessions, cs>>

\* mutant: the rejection reaches the outer catch, nothing is stored
UploadEmbedFailed_abort(r) ==
  /\ reqs[r].kind = "upload" /\ reqs[r].pc = "embed"
  /\ reqs' = [reqs EXCEPT ![r] =
                Respond([@ EXCEPT !.embedErr = TRUE], 500,
                        "Failed to process PDFs")]
  /\ UNCHANGED <<openai, userStores, writes, ck, df,
               app, inflight, learningSessions, cs>>

\* lines 107-110, 113-123: the embedding call rejects and is swallowed
UploadEmbedFailed(r) ==
  /\ reqs[r].kind = "upload" /\ reqs[r].pc = "embed"
  /\ UploadFinish(r, [reqs[r] EXCEPT !.vectors = <<>>, !.embedErr = TRUE])
  /\ UNCHANGED <<openai, ck, df,
               app, inflight, learningSessions, cs>>

(***************************************************************************)
(* Retrieval shared by /api/chat and /api/evaluate-decision                *)
(***************************************************************************)
\* the entry whose vectors are scored (store.vectors.map)
ScoredEntry(q, stores) == q.store

\* mutant: the chunks are looked up in the map again after the await
ContextEntry_reread(q, stores) == StoreGet(stores, q.userId)

\* the entry whose chunks become the context (store.chunks[s.idx])
ContextEntry(q, stores) == q.store

\* mutant: without the fallback to the first chunks
WithFallback_none(pieces, chunks) == pieces

\* lines 218-221: if nothing is relevant, the first few chunks
WithFallback(pieces, chunks) ==
  IF Len(pieces) = 0 /\ Len(chunks) > 0
  THEN SubSeq(chunks, 1, Min(FallbackChunks, Len(chunks)))
  ELSE pieces

\* contextPieces.join("\n\n---\n\n").length; undefined joins as ""
RECURSIVE JoinLen(_)
JoinLen(pieces) ==
  IF pieces = <<>> THEN 0
  ELSE Max(Head(pieces).len, 0) +
       (IF Len(pieces) > 1 THEN SeparatorLen ELSE 0) + JoinLen(Tail(pieces))

\* lines 252-254
ContextMessage(pieces) ==
  IF JoinLen(pieces) > 0 THEN "CONTEXT (from uploaded PDFs)"
  ELSE "No relevant context found"

\* lines 226-250: the fixed system instruction
SystemPrompt == "Socratic medical tutor"

\* variant that tests for the questions mode instead
ModeInstruction_questionsOnly(mode) ==
  IF mode = "questions" THEN "QUESTIONS MODE" ELSE "FEEDBACK MODE"

\* lines 256-259
ModeInstruction(mode) ==
  IF mode = "feedback" THEN "FEEDBACK MODE" ELSE "QUESTIONS MODE"

\* [...messages].reverse().find(m => m.role === "user")
HasUserMessage(messages) == \E i \in 1..Len(messages) : messages[i].role = "user"

LatestUserMessage(messages) ==
  messages[CHOOSE i \in 1..Len(messages) :
             /\ messages[i].role = "user"
             /\ \A j \in (i + 1)..Len(messages) : messages[j].role # "user"]

\* lines 261-266: three system messages, then ...messages
ChatMessages(contextMessage, modeInstruction, messages) ==
  << Msg("system", SystemPrompt),
     Msg("system", contextMessage),
     Msg("system", modeInstruction) >> \o messages

\* lines 218-272 of /api/chat: fallback, prompt assembly, completion call
ChatAssemble(q, pieces, scoredVer, ctxVer, chunks) ==
  LET ctx == WithFallback(pieces, chunks)
  IN  [q EXCEPT !.contextPieces = ctx,
                !.contextMessage = ContextMessage(ctx),
                !.modeInstruction = ModeInstruction(q.mode),
                !.chatMessages = ChatMessages(ContextMessage(ctx),
                                              ModeInstruction(q.mode),
                                              q.messages),
                !.vecVer = scoredVer, !.ctxVer = ctxVer,
                !.store = NoEntry,
                !.pc = "complete", !.calls = @ + 1]

(***************************************************************************)
(* POST /api/chat (index.js 158-283)                                       *)
(***************************************************************************)
Reject(status, msg) == [status |-> status, msg |-> msg]

Pass == Reject(0, "")

UploadFirst == "No PDF knowledge found for this user. Please upload PDFs first."

\* lines 162-184: the early returns, in the order of the code
ChatReject(userId, messages, store) ==
  IF ~openai THEN Reject(503, "AI chat is not configured")
  ELSE IF userId = NoUser THEN Reject(400, "Missing userId")
  ELSE IF Len(messages) = 0 THEN Reject(400, "Missing messages")
  ELSE IF NoKnowledge(store) THEN Reject(400, UploadFirst)
  ELSE IF ~HasUserMessage(messages) THEN Reject(400, "No user message found")
  ELSE Pass

\* lines 160-216: validation, store lookup, then either the query embedding
\* is awaited or the keyword ranking is computed and the completion awaited
ChatArrive(r, userId, messages, mode) ==
  /\ CanArriveRead(r)
  /\ LET q     == [ReqIdle EXCEPT !.kind = "chat", !.userId = userId,
                                  !.messages = messages, !.mode = mode]
         store == StoreGet(userStores, userId)
         qs    == [q EXCEPT !.store = store]
         rej   == ChatReject(userId, messages, store)
     IN  reqs' = [reqs EXCEPT ![r] =
           IF rej.status # 0 THEN Respond(q, rej.status, rej.msg)
           ELSE IF Len(store.vectors) > 0
             THEN [qs EXCEPT !.pc = "embed", !.calls = @ + 1]
           ELSE IF ScoreThrows(store.chunks, LatestUserMessage(messages).content)
             THEN Respond(qs, 500, "Failed to generate Socratic tutor response")
           ELSE ChatAssemble(qs,
                  TopPositive(scoreChunksByText(store.chunks,
                                LatestUserMessage(messages).content),
                              ChatTopK, store.chunks),
                  store.ver, store.ver, store.chunks)]
  /\ UNCHANGED <<openai, userStores, writes, ck, df,
               app, inflight, learningSessions, cs>>

\* lines 195-272: the query embedding resolves
ChatEmbedded(r, queryVector) ==
  /\ reqs[r].kind = "chat" /\ reqs[r].pc = "embed"
  /\ LET q      == reqs[r]
         vecs   == ScoredEntry(q, userStores)
         chs    == ContextEntry(q, userStores)
         scored == ScoreByVectors(vecs.vectors, queryVector)
     IN  reqs' = [reqs EXCEPT ![r] =
           ChatAssemble(q, TopPositive(scored, ChatTopK, chs.chunks),
                        vecs.ver, chs.ver, chs.chunks)]
  /\ UNCHANGED <<openai, userStores, writes, ck, df,
               app, inflight, learningSessions, cs>>

(***************************************************************************)
(* POST /api/generate-case (index.js 290-368)                              *)
(***************************************************************************)
\* lines 292-308
CaseReject(userId, store) ==
  IF userId = NoUser THEN Reject(400, "Missing x-user-id header")
  ELSE IF ~openai THEN Reject(503, "AI is not configured")
  ELSE IF NoKnowledge(store)
    THEN Reject(400, "No PDF knowledge found. Please upload PDFs first.")
  ELSE Pass

CaseArrive(r, userId) ==
  /\ CanArriveRead(r)
  /\ LET q     == [ReqIdle EXCEPT !.kind = "case", !.userId = userId]
         store == StoreGet(userStores, userId)
         rej   == CaseReject(userId, store)
     IN  reqs' = [reqs EXCEPT ![r] =
           IF rej.status # 0 THEN Respond(q, rej.status, rej.msg)
           ELSE [q EXCEPT !.contextPieces =
                             SubSeq(store.chunks, 1,
                                    Min(CaseSample, Len(store.chunks))),
                          !.pc = "complete", !.calls = @ + 1]]
  /\ UNCHANGED <<openai, userStores, writes, ck, df,
               app, inflight, learningSessions, cs>>

(***************************************************************************)
(* POST /api/generate-adaptive-case (index.js 375-487)                     *)
(***************************************************************************)
\* const { difficultyLevel = 3, performanceHistory = [] } = req.body || {}
LevelOrDefault(level) == IF level = NoLevel THEN DefaultDifficulty ELSE level

\* lines 380-395
AdaptiveReject(userId, store) ==
  IF userId = NoUser THEN Reject(400, "Missing x-user-id header")
  ELSE IF ~openai THEN Reject(503, "AI is not configured")
  ELSE IF NoKnowledge(store)
    THEN Reject(400, "No PDF knowledge found. Please upload PDFs first.")
  ELSE Pass

AdaptiveArrive(r, userId, level, history) ==
  /\ CanArriveRead(r)
  /\ LET q     == [ReqIdle EXCEPT !.kind = "adaptive", !.userId = userId,
                                  !.difficultyLevel = LevelOrDefault(level),
                                  !.performanceHistory = history]
         store == StoreGet(userStores, userId)
         rej   == AdaptiveReject(userId, store)
     IN  reqs' = [reqs EXCEPT ![r] =
           IF rej.status # 0 THEN Respond(q, rej.status, rej.msg)
           ELSE [q EXCEPT !.adaptiveDifficulty =
                             AdaptiveDifficulty(q.difficultyLevel, history),
                          !.contextPieces =
                             SubSeq(store.chunks, 1,
                                    Min(AdaptiveSample, Len(store.chunks))),
                          !.pc = "complete", !.calls = @ + 1]]
  /\ UNCHANGED <<openai, userStores, writes, ck, df,
               app, inflight, learningSessions, cs>>

(***************************************************************************)
(* POST /api/evaluate-decision (index.js 494-579)                          *)
(***************************************************************************)
\* mutant: the store is looked at before the backend
EvalReject_storeFirst(userId, caseData, store) ==
  IF userId = NoUser \/ ~caseData THEN Reject(400, "Missing required fields")
  ELSE IF NoKnowledge(store) THEN Reject(400, "No PDF knowledge found")
  ELSE IF ~openai THEN Reject(503, "AI not configured")
  ELSE Pass

\* lines 499-510
EvalReject(userId, caseData, store) ==
  IF userId = NoUser \/ ~caseData THEN Reject(400, "Missing required fields")
  ELSE IF ~openai THEN Reject(503, "AI not configured")
  ELSE IF NoKnowledge(store) THEN Reject(400, "No PDF knowledge found")
  ELSE Pass

\* lines 496-517: validation, store lookup, the query embedding is awaited
EvalArrive(r, userId, caseData) ==
  /\ CanArriveRead(r)
  /\ LET q     == [ReqIdle EXCEPT !.kind = "evaluate", !.userId = userId,
                                  !.caseData = caseData]
         store == StoreGet(userStores, userId)
         rej   == EvalReject(userId, caseData, store)
     IN  reqs' = [reqs EXCEPT ![r] =
           IF rej.status # 0 THEN Respond(q, rej.status, rej.msg)
           ELSE [q EXCEPT !.store = store, !.pc = "embed", !.calls = @ + 1]]
  /\ UNCHANGED <<openai, userStores, writes, ck, df,
               app, inflight, learningSessions, cs>>

\* lines 518-570: the query embedding resolves; no fallback here
EvalEmbedded(r, queryVector) ==
  /\ reqs[r].kind = "evaluate" /\ reqs[r].pc = "embed"
  /\ LET q      == reqs[r]
         vecs   == ScoredEntry(q, userStores)
         chs    == ContextEntry(q, userStores)
         scored == ScoreByVectors(vecs.vectors, queryVector)
     IN  reqs' = [reqs EXCEPT ![r] =
           [q EXCEPT !.contextPieces = TopPositive(scored, EvalTopK, chs.chunks),
                     !.vecVer = vecs.ver, !.ctxVer = chs.ver,
                     !.store = NoEntry,
                     !.pc = "complete", !.calls = @ + 1]]
  /\ UNCHANGED <<openai, userStores, writes, ck, df,
               app, inflight, learningSessions, cs>>

(***************************************************************************)
(* Outcomes of the awaited model calls, and the end of a request           *)
(***************************************************************************)
\* the message of the catch block of each handler
FailMessage(kind) ==
  CASE kind = "upload"   -> "Failed to process PDFs"
    [] kind = "chat"     -> "Failed to generate Socratic tutor response"
    [] kind = "case"     -> "Failed to generate case"
    [] kind = "adaptive" -> "Failed to generate adaptive case"
    [] OTHER             -> "Failed to evaluate decision"

\* variant in which /api/chat answers from the keyword ranking when the
\* query embedding fails
QueryEmbedFailed_keyword(r) ==
  /\ reqs[r].kind \in {"chat", "evaluate"} /\ reqs[r].pc = "embed"
  /\ LET q == [reqs[r] EXCEPT !.callFailed = TRUE]
     IN  reqs' = [reqs EXCEPT ![r] =
           IF q.kind = "chat"
           THEN ChatAssemble(q, <<>>, q.store.ver, q.store.ver, q.store.chunks)
           ELSE Respond(q, 500, FailMessage(q.kind))]
  /\ UNCHANGED <<openai, userStores, writes, ck, df,
               app, inflight, learningSessions, cs>>

\* openai.embeddings.create rejects in /api/chat or /api/evaluate-decision:
\* the catch block answers (lines 279-282, 575-578)
QueryEmbedFailed(r) ==
  /\ reqs[r].kind \in {"chat", "evaluate"} /\ reqs[r].pc = "embed"
  /\ reqs' = [reqs EXCEPT ![r] =
       Respond([@ EXCEPT !.callFailed = TRUE], 500, FailMessage(@.kind))]
  /\ UNCHANGED <<openai, userStores, writes, ck, df,
               app, inflight, learningSessions, cs>>

\* openai.chat.completions.create resolves: res.json(...)
Completed(r) ==
  /\ reqs[r].pc = "complete"
  /\ reqs' = [reqs EXCEPT ![r] = Respond(@, 200, "ok")]
  /\ UNCHANGED <<openai, userStores, writes, ck, df,
               app, inflight, learningSessions, cs>>

\* openai.chat.completions.create rejects
CompletionFailed(r) ==
  /\ reqs[r].pc = "complete"
  /\ reqs' = [reqs EXCEPT ![r] =
       Respond([@ EXCEPT !.callFailed = TRUE], 500, FailMessage(@.kind))]
  /\ UNCHANGED <<openai, userStores, writes, ck, df,
               app, inflight, learningSessions, cs>>

\* JSON.parse of the completion throws (lines 477, 572)
CompletionBadJson(r) ==
  /\ reqs[r].kind \in {"adaptive", "evaluate"} /\ reqs[r].pc = "complete"
  /\ reqs' = [reqs EXCEPT ![r] = Respond(@, 500, FailMessage(@.kind))]
  /\ UNCHANGED <<openai, userStores, writes, ck, df,
               app, inflight, learningSessions, cs>>

\* the response has been sent; the slot serves the next request
Close(r) ==
  /\ reqs[r].pc = "done"
  /\ reqs' = [reqs EXCEPT ![r] = ReqIdle]
  /\ UNCHANGED <<openai, userStores, writes, ck, df,
               app, inflight, learningSessions, cs>>

(***************************************************************************)
(* The adaptive-case client (App.jsx).  app holds the React state, inflight *)
(* the asynchronous handlers that are suspended at an await together with   *)
(* the state values their closures captured, learningSessions the learner's *)
(* adaptive session documents in Firestore, oldest first.  Scores are in    *)
(* tenths; evaluation scores are 0.0 and 0.6 so that the mean over one, two *)
(* or three steps is a whole number of tenths.                              *)
(***************************************************************************)
\* bounds of the client specification
MaxSessions == 11

MaxCases == 2

MaxSaves == 1

\* adaptiveCase === null
NoCase == [id |-> 0, steps |-> 0]

\* adaptiveCase.steps.length of the cases the server returns
StepCounts == {2, 3}

\* performanceHistory.slice(-10) in the request body
HistorySample == 10

\* values of evaluation.canProceed: true, false, and a truthy non-boolean
JsonTrue == "true"

JsonFalse == "false"

JsonYes == "yes"

\* what if (evaluation.canProceed) tests
Truthy(v) == v \in {JsonTrue, JsonYes}

\* the evaluations /api/evaluate-decision passes on from the model
Evaluation(score, canProceed) == [score |-> score, canProceed |-> canProceed]

EvalResults ==
  { Evaluation(6, JsonTrue), Evaluation(0, JsonTrue),
    Evaluation(6, JsonYes), Evaluation(NoScore, JsonFalse) }

\* n stored sessions, dated 1..n: the newest scored 0.2, the others 0.9
SessionLog(n) ==
  [d \in 1..n |-> [score |-> IF d = n THEN 2 ELSE 9, date |-> d]]

StoredSessions ==
  { SessionLog(0), SessionLog(RecentWindow), SessionLog(MaxSessions) }

\* lines 35-41: the useState initial values
AppInit ==
  [user |-> FALSE, trainingMode |-> "socratic", adaptiveCase |-> NoCase,
   currentStep |-> 0, stepDecisions |-> <<>>, stepEvaluations |-> <<>>,
   isEvaluating |-> FALSE, isGeneratingCase |-> FALSE,
   performanceHistory |-> <<>>, difficultyLevel |-> DefaultDifficulty]

NoEvalCall ==
  [pc |-> "idle", currentStep |-> 0, stepDecisions |-> <<>>,
   stepEvaluations |-> <<>>, adaptiveCase |-> NoCase]

NoGenCall == [pc |-> "idle", difficultyLevel |-> 0, performanceHistory |-> <<>>]

NoSaveCall == [pc |-> "idle", avgScore |-> NoScore, difficultyLevel |-> 0]

\* no adaptive-case response has been taken yet
NotServed == [difficultyLevel |-> NoLevel, performanceHistory |-> <<>>]

\* no handler is suspended; loads holds the difficultyLevel each running
\* loadPerformanceHistory captured; served holds the level the latest
\* adaptive-case response carried and the history its request sent
NoCalls ==
  [eval |-> NoEvalCall, gen |-> NoGenCall, save |-> NoSaveCall,
   loads |-> <<>>, cases |-> 0, saves |-> 0, served |-> NotServed]

ClientIdle ==
  /\ app = AppInit
  /\ inflight = NoCalls
  /\ learningSessions = <<>>

ServerVars == <<openai, userStores, writes, reqs, ck, df, cs>>

\* Array.prototype.reverse on a copy
RECURSIVE Reverse(_)
Reverse(s) == IF s = <<>> THEN <<>> ELSE Append(Reverse(Tail(s)), Head(s))

\* s with its i-th element removed
RemoveAt(s, i) == SubSeq(s, 1, i - 1) \o SubSeq(s, i + 1, Len(s))

\* lines 46-60, 154-158: the auth listener sets user, the effect on [user]
\* calls loadPerformanceHistory
SignIn ==
  /\ ~app.user
  /\ app' = [app EXCEPT !.user = TRUE]
  /\ inflight' = [inflight EXCEPT !.loads = Append(@, app.difficultyLevel)]
  /\ UNCHANGED <<ServerVars, learningSessions>>

\* lines 162-178: where userId == uid, orderBy createdAt desc
QueryHistory(docs) == Reverse(docs)

\* lines 182-189, on the difficultyLevel the closure captured
LoadedDifficulty(history, difficultyLevel) ==
  IF Len(history) > 0
  THEN LET recentScores == JsSlice(history, 0, RecentWindow)
           sum          == SumScores(recentScores)
           n            == Len(recentScores)
       IN  IF AvgAbove(sum, n, RaiseAbove) /\ difficultyLevel < MaxDifficulty
           THEN Min(MaxDifficulty, difficultyLevel + 1)
           ELSE IF AvgBelow(sum, n, LowerBelow)
                   /\ difficultyLevel > MinDifficulty
                THEN Max(MinDifficulty, difficultyLevel - 1)
                ELSE difficultyLevel
  ELSE difficultyLevel

\* lines 167-190: getDocs resolves for the i-th running load
LoadDone(i) ==
  /\ i \in 1..Len(inflight.loads)
  /\ LET history == QueryHistory(learningSessions)
         level   == LoadedDifficulty(history, inflight.loads[i])
     IN  app' = [app EXCEPT !.performanceHistory = history,
                            !.difficultyLevel =
                               IF level = inflight.loads[i] THEN @ ELSE level]
  /\ inflight' = [inflight EXCEPT !.loads = RemoveAt(@, i)]
  /\ UNCHANGED <<ServerVars, learningSessions>>

\* lines 191-193: getDocs rejects
LoadFailed(i) ==
  /\ i \in 1..Len(inflight.loads)
  /\ inflight' = [inflight EXCEPT !.loads = RemoveAt(@, i)]
  /\ UNCHANGED <<ServerVars, app, learningSessions>>

\* lines 464-472 and 683-690: the case state is cleared
ResetCase(a) ==
  [a EXCEPT !.adaptiveCase = NoCase, !.currentStep = 0,
            !.stepDecisions = <<>>, !.stepEvaluations = <<>>]

\* lines 462-475: the Socratic Tutor button
SelectSocratic ==
  /\ app' = [ResetCase(app) EXCEPT !.trainingMode = "socratic"]
  /\ UNCHANGED <<ServerVars, inflight, learningSessions>>

\* lines 476-487: the Adaptive Case-Based button
SelectAdaptive ==
  /\ app' = [app EXCEPT !.trainingMode = "adaptive"]
  /\ UNCHANGED <<ServerVars, inflight, learningSessions>>

\* lines 560-566: the Start Adaptive Case button is rendered and enabled
\* (the learner has uploaded, so uploadStatus is set)
CanStartCase ==
  /\ app.trainingMode = "adaptive"
  /\ app.adaptiveCase = NoCase
  /\ ~app.isGeneratingCase

\* lines 196-209: generateAdaptiveCase up to the fetch
GenerateClick ==
  /\ CanStartCase
  /\ inflight.cases < MaxCases
  /\ app' = [app EXCEPT !.isGeneratingCase = TRUE]
  /\ inflight' = [inflight EXCEPT
       !.gen = [pc |-> "wait", difficultyLevel |-> app.difficultyLevel,
                performanceHistory |->
                  JsSlice(app.performanceHistory, 0 - HistorySample,
                          Len(app.performanceHistory))],
       !.cases = @ + 1]
  /\ UNCHANGED <<ServerVars, learningSessions>>

\* lines 210-226 after a 200 response carrying a case of steps steps and
\* the level the server computed from the body (index.js 397-408, 479-482)
GenerateDone(steps) ==
  /\ inflight.gen.pc = "wait"
  /\ app' = [app EXCEPT
       !.adaptiveCase = [id |-> inflight.cases, steps |-> steps],
       !.currentStep = 0, !.stepDecisions = <<>>, !.stepEvaluations = <<>>,
       !.difficultyLevel =
          AdaptiveDifficulty(LevelOrDefault(inflight.gen.difficultyLevel),
                             inflight.gen.performanceHistory),
       !.isGeneratingCase = FALSE]
  /\ inflight' = [inflight EXCEPT
       !.gen = NoGenCall,
       !.served = [difficultyLevel |-> app'.difficultyLevel,
                   performanceHistory |-> inflight.gen.performanceHistory]]
  /\ UNCHANGED <<ServerVars, learningSessions>>

\* lines 211-213, 221-226: the response is not ok or the fetch rejects
GenerateFailed ==
  /\ inflight.gen.pc = "wait"
  /\ app' = [app EXCEPT !.isGeneratingCase = FALSE]
  /\ inflight' = [inflight EXCEPT !.gen = NoGenCall]
  /\ UNCHANGED <<ServerVars, learningSessions>>

\* stepDecisions[idx] of the render, undefined past the end
HasDecision(a, idx) == idx + 1 <= Len(a.stepDecisions)

\* lines 560-562, 587-588, 630, 649-656: the decision form of the current
\* step is rendered and its button enabled (both inputs filled in)
CanCommit ==
  /\ app.trainingMode = "adaptive"
  /\ app.adaptiveCase # NoCase
  /\ app.currentStep < app.adaptiveCase.steps
  /\ ~HasDecision(app, app.currentStep)
  /\ ~app.isEvaluating

\* lines 229-252: commitDecision up to the fetch; the closure keeps the
\* state of the render the button belonged to
CommitDecision ==
  /\ CanCommit
  /\ app' = [app EXCEPT !.isEvaluating = TRUE]
  /\ inflight' = [inflight EXCEPT
       !.eval = [pc |-> "wait", currentStep |-> app.currentStep,
                 stepDecisions |-> app.stepDecisions,
                 stepEvaluations |-> app.stepEvaluations,
                 adaptiveCase |-> app.adaptiveCase]]
  /\ UNCHANGED <<ServerVars, learningSessions>>

\* line 237; case names the case the decision was submitted for
StepDecision(stepIndex, case) == [stepNumber |-> stepIndex + 1, case |-> case.id]

\* variant that advances past the last step
Advances_pastLast(evaluation, currentStep, case) == Truthy(evaluation.canProceed)

\* line 262
Advances(evaluation, currentStep, case) ==
  Truthy(evaluation.canProceed) /\ currentStep < case.steps - 1

\* lines 253-270 after a 200 response, on the values the closure captured
EvaluateDone(evaluation) ==
  /\ inflight.eval.pc = "wait"
  /\ LET c == inflight.eval
     IN  app' = [app EXCEPT
           !.stepDecisions =
              Append(c.stepDecisions, StepDecision(c.currentStep, c.adaptiveCase)),
           !.stepEvaluations = Append(c.stepEvaluations, evaluation),
           !.currentStep =
              IF Advances(evaluation, c.currentStep, c.adaptiveCase)
              THEN c.currentStep + 1 ELSE @,
           !.isEvaluating = FALSE]
  /\ inflight' = [inflight EXCEPT !.eval = NoEvalCall]
  /\ UNCHANGED <<ServerVars, learningSessions>>

\* lines 254-256, 265-270: the response is not ok or the fetch rejects
EvaluateFailed ==
  /\ inflight.eval.pc = "wait"
  /\ app' = [app EXCEPT !.isEvaluating = FALSE]
  /\ inflight' = [inflight EXCEPT !.eval = NoEvalCall]
  /\ UNCHANGED <<ServerVars, learningSessions>>

\* line 667: the case-complete panel is rendered
CaseComplete(a) ==
  /\ a.trainingMode = "adaptive"
  /\ a.adaptiveCase # NoCase
  /\ a.currentStep = a.adaptiveCase.steps - 1
  /\ Len(a.stepDecisions) = a.adaptiveCase.steps

\* line 275
AvgScore(stepEvaluations) ==
  SumScores(stepEvaluations) \div Len(stepEvaluations)

\* lines 273-291: Save & Complete; a signed-in learner's session is saved
CompleteClick ==
  /\ CaseComplete(app)
  /\ inflight.save.pc = "idle"
  /\ inflight.saves < MaxSaves
  /\ inflight' = [inflight EXCEPT
       !.save = [pc |-> IF app.user THEN "addDoc" ELSE "idle",
                 avgScore |-> AvgScore(app.stepEvaluations),
                 difficultyLevel |-> app.difficultyLevel],
       !.saves = @ + 1]
  /\ UNCHANGED <<ServerVars, app, learningSessions>>

\* lines 291-292: addDoc resolves, loadPerformanceHistory is called
SaveDone ==
  /\ inflight.save.pc = "addDoc"
  /\ learningSessions' =
       Append(learningSessions,
              [score |-> inflight.save.avgScore,
               date |-> Len(learningSessions) + 1])
  /\ inflight' = [inflight EXCEPT
       !.save.pc = "idle",
       !.loads = Append(@, inflight.save.difficultyLevel)]
  /\ UNCHANGED <<ServerVars, app>>

\* lines 293-295: addDoc rejects
SaveFailed ==
  /\ inflight.save.pc = "addDoc"
  /\ inflight' = [inflight EXCEPT !.save.pc = "idle"]
  /\ UNCHANGED <<ServerVars, app, learningSessions>>

\* lines 683-692: the Start New Case button of the case-complete panel
StartNewCase ==
  /\ CaseComplete(app)
  /\ app' = ResetCase(app)
  /\ UNCHANGED <<ServerVars, inflight, learningSessions>>

(***************************************************************************)
(* Specifications                                                          *)
(***************************************************************************)
ServerIdle ==
  /\ userStores = [u \in Users |-> NoEntry]
  /\ writes = 0
  /\ reqs = [r \in Slots |-> ReqIdle]

Init ==
  /\ openai \in BOOLEAN
  /\ ServerIdle
  /\ ck = ChunkIdle
  /\ df = DiffIdle
  /\ cs = CosIdle
  /\ ClientIdle

Next ==
  \E r \in Slots :
    \/ \E in \in UploadInputs : UploadArrive(r, in.userId, in.files)
    \/ UploadParsed(r)
    \/ UploadParseThrows(r)
    \/ \E seed \in Seeds : UploadEmbedded(r, seed)
    \/ UploadEmbedFailed(r)
    \/ \E in \in ChatInputs :
         ChatArrive(r, in.userId, in.messages, in.mode)
    \/ \E v \in QueryVectors : ChatEmbedded(r, v)
    \/ \E u \in ReadUsers \cup {NoUser} : CaseArrive(r, u)
    \/ \E in \in AdaptiveInputs :
         AdaptiveArrive(r, in.userId, in.difficultyLevel,
                        in.performanceHistory)
    \/ \E in \in EvalInputs : EvalArrive(r, in.userId, in.caseData)
    \/ \E v \in QueryVectors : EvalEmbedded(r, v)
    \/ QueryEmbedFailed(r)
    \/ Completed(r)
    \/ CompletionFailed(r)
    \/ CompletionBadJson(r)
    \/ Close(r)

Spec == Init /\ [][Next]_vars

ChunkSpecInit ==
  /\ openai = FALSE
  /\ ServerIdle
  /\ ChunkInit
  /\ df = DiffIdle
  /\ cs = CosIdle
  /\ ClientIdle

ChunkNext == ChunkIter \/ ChunkExit

SpecChunk == ChunkSpecInit /\ [][ChunkNext]_vars

DiffSpecInit ==
  /\ openai = FALSE
  /\ ServerIdle
  /\ ck = ChunkIdle
  /\ DiffInit
  /\ cs = CosIdle
  /\ ClientIdle

DiffNext == DiffCompute

SpecDiff == DiffSpecInit /\ [][DiffNext]_vars

ClientSpecInit ==
  /\ openai = FALSE
  /\ ServerIdle
  /\ ck = ChunkIdle
  /\ df = DiffIdle
  /\ cs = CosIdle
  /\ app = AppInit
  /\ inflight = NoCalls
  /\ learningSessions \in StoredSessions

ClientNext ==
  \/ SignIn
  \/ \E i \in 1..(MaxSaves + 1) : LoadDone(i)
  \/ \E i \in 1..(MaxSaves + 1) : LoadFailed(i)
  \/ SelectSocratic
  \/ SelectAdaptive
  \/ GenerateClick
  \/ \E steps \in StepCounts : GenerateDone(steps)
  \/ GenerateFailed
  \/ CommitDecision
  \/ \E evaluation \in EvalResults : EvaluateDone(evaluation)
  \/ EvaluateFailed
  \/ CompleteClick
  \/ SaveDone
  \/ SaveFailed
  \/ StartNewCase

SpecClient == ClientSpecInit /\ [][ClientNext]_vars

CosSpecInit ==
  /\ openai = FALSE
  /\ ServerIdle
  /\ ck = ChunkIdle
  /\ df = DiffIdle
  /\ CosInit
  /\ ClientIdle

CosNext == CosCompute

SpecCos == CosSpecInit /\ [][CosNext]_vars

(***************************************************************************)
(* Properties                                                              *)
(***************************************************************************)
\* C1: chunkText called with chunkSize <= overlap returns the empty
\* sequence (and so terminates) for every text.
C1_EmptyWhenSizeNotAboveOverlap ==
  (ck.pc = "done" /\ ck.chunkSize <= ck.overlap) => ck.chunks = <<>>

\* the text an upload extracts from its files (lines 87-94)
RECURSIVE ExtractedText(_, _)
ExtractedText(files, acc) ==
  IF files = <<>> THEN acc
  ELSE ExtractedText(Tail(files),
         IF Head(files).text.len > 0
         THEN TextConcat(acc, TextConcat(FileMarker(Head(files)),
                                         Head(files).text))
         ELSE acc)

\* the step in which the upload of slot r answers with success
UploadCompletes(r) ==
  /\ reqs[r].kind = "upload" /\ reqs[r].pc \in {"parse", "embed"}
  /\ reqs'[r].pc = "done" /\ reqs'[r].status = 200

\* C2: when an upload for user u completes, u's entry holds exactly the
\* chunks of the uploaded files and either no vectors or the embeddings of
\* those chunks, and the entry of every other user is unchanged.
C2_UploadReplacesEntry ==
  [][\A r \in Slots : UploadCompletes(r) =>
       LET u        == reqs[r].userId
           expected == chunkText(ExtractedText(reqs[r].files, EmptyText))
       IN  /\ userStores'[u].set
           /\ userStores'[u].chunks = expected
           /\ userStores'[u].vectors \in
                {<<>>} \cup { EmbeddingData(Len(expected), sd) : sd \in Seeds }
           /\ \A v \in Users \ {u} : userStores'[v] = userStores[v]]_vars

\* a second upload of the same user has completed, with one chunk
C2_Witness ==
  \E r \in Slots, u \in Users :
    /\ reqs[r].kind = "upload" /\ reqs[r].pc = "done" /\ reqs[r].status = 200
    /\ reqs[r].userId = u /\ reqs[r].chunkCount = 1
    /\ userStores[u].ver = 2 /\ Len(userStores[u].chunks) = 1
    /\ \A v \in Users \ {u} : ~userStores[v].set

\* C3: a chat or decision evaluation that ranks by vectors takes the
\* chunks of its context from the same store entry as the vectors it
\* scored, whatever uploads complete while it awaits.
C3_NoTornRead ==
  \A r \in Slots :
    (reqs[r].kind \in {"chat", "evaluate"} /\ reqs[r].pc = "complete")
      => reqs[r].vecVer = reqs[r].ctxVer

\* a chat has ranked by the vectors of an entry that an upload replaced
\* while the chat awaited its query embedding
C3_Witness ==
  \E r \in Slots :
    /\ reqs[r].kind = "chat" /\ reqs[r].pc = "complete" /\ reqs[r].calls = 2
    /\ reqs[r].vecVer >= 1 /\ Len(reqs[r].contextPieces) > 0
    /\ userStores[reqs[r].userId].ver # reqs[r].vecVer

\* C4: every entry with vectors has as many vectors as chunks.
C4_VectorsAlignWithChunks ==
  \A u \in Users :
    Len(userStores[u].vectors) > 0 =>
      Len(userStores[u].vectors) = Len(userStores[u].chunks)

\* an entry with several vectors, written over an earlier entry
C4_Witness ==
  \E u \in Users : Len(userStores[u].vectors) > 1 /\ userStores[u].ver = 2

\* C5: when the embedding call of an upload fails, the entry is replaced
\* by the new chunks without vectors and the upload answers 200 with
\* chunkCount the number of chunks.
C5_EmbedFailureDegrades ==
  [][\A r \in Slots :
       (reqs[r].kind = "upload" /\ reqs[r].pc = "embed" /\ reqs'[r].embedErr)
         => LET u == reqs[r].userId
            IN  /\ reqs'[r].pc = "done" /\ reqs'[r].status = 200
                /\ reqs'[r].chunkCount = Len(reqs[r].chunks)
                /\ userStores'[u].set
                /\ userStores'[u].chunks = reqs[r].chunks
                /\ userStores'[u].vectors = <<>>]_vars

\* an upload of several chunks whose embedding failed has answered
C5_Witness ==
  \E r \in Slots :
    /\ reqs[r].kind = "upload" /\ reqs[r].pc = "done" /\ reqs[r].embedErr
    /\ reqs[r].status = 200 /\ reqs[r].chunkCount > 1
    /\ Len(userStores[reqs[r].userId].chunks) = reqs[r].chunkCount
    /\ userStores[reqs[r].userId].vectors = <<>>

\* C6: in chat and in decision evaluation the context handed to the model
\* holds between one and K chunks (K = 6 for chat, 5 for evaluation): the
\* positive top-K, or the first 3 stored chunks when none is positive.
C6_ContextNeverEmpty ==
  \A r \in Slots :
    (reqs[r].kind \in {"chat", "evaluate"} /\ reqs[r].pc = "complete")
      => Len(reqs[r].contextPieces) \in
           1..(IF reqs[r].kind = "chat" THEN ChatTopK ELSE EvalTopK)

\* C7: a request without caller identity is answered 400, whether or not
\* the backend is configured.
C7_MissingIdentityIs400 ==
  \A r \in Slots :
    (reqs[r].pc = "done" /\ reqs[r].userId = NoUser) => reqs[r].status = 400

LlmKinds == {"chat", "case", "adaptive", "evaluate"}

\* C8 as stated: with the backend unconfigured every request to a
\* model-backed endpoint is answered 503.
C8_UnconfiguredIs503 ==
  \A r \in Slots :
    (reqs[r].pc = "done" /\ reqs[r].kind \in LlmKinds /\ ~openai)
      => reqs[r].status = 503

\* C8 amended: with the backend unconfigured every request to a
\* model-backed endpoint that carries the caller identity (and caseData,
\* for evaluate-decision) is answered 503.
C8_UnconfiguredIs503WithIdentity ==
  \A r \in Slots :
    (/\ reqs[r].pc = "done" /\ reqs[r].kind \in LlmKinds /\ ~openai
     /\ reqs[r].userId # NoUser
     /\ (reqs[r].kind = "evaluate" => reqs[r].caseData))
      => reqs[r].status = 503

\* an identified decision evaluation was refused for want of a backend,
\* for a user without an entry
C8_Witness ==
  \E r \in Slots :
    /\ reqs[r].pc = "done" /\ reqs[r].kind = "evaluate" /\ ~openai
    /\ reqs[r].userId # NoUser /\ reqs[r].caseData /\ reqs[r].status = 503
    /\ ~userStores[reqs[r].userId].set

\* the step in which a chat request of user u arrives at slot r while u has
\* no entry or an entry without chunks
ChatArrivesUnindexed(r) ==
  /\ reqs[r].pc = "idle" /\ reqs'[r].kind = "chat"
  /\ reqs'[r].userId \in Users
  /\ (~userStores[reqs'[r].userId].set
        \/ Len(userStores[reqs'[r].userId].chunks) = 0)

RefusedUploadFirst(q) ==
  q.pc = "done" /\ q.status = 400 /\ q.msg = UploadFirst /\ q.calls = 0

\* C9 as stated: a chat for a user without indexed chunks is answered 400
\* "upload PDFs first" and calls no model.
C9_UnindexedChatIs400 ==
  [][\A r \in Slots :
       ChatArrivesUnindexed(r) => RefusedUploadFirst(reqs'[r])]_vars

\* C9 amended: on a server whose backend is configured, a chat with a
\* non-empty messages array for a user without indexed chunks is answered
\* 400 "upload PDFs first" and calls no model.
C9_UnindexedChatIs400WhenConfigured ==
  [][\A r \in Slots :
       (ChatArrivesUnindexed(r) /\ openai /\ Len(reqs'[r].messages) > 0)
         => RefusedUploadFirst(reqs'[r])]_vars

\* a chat was refused while the user's entry exists but has no chunks
C9_Witness ==
  \E r \in Slots :
    /\ reqs[r].kind = "chat" /\ RefusedUploadFirst(reqs[r])
    /\ userStores[reqs[r].userId].set
    /\ Len(userStores[reqs[r].userId].chunks) = 0

\* the total (in tenths) of the last k scores of h, a missing score being 0
RECURSIVE TotalOfLast(_, _)
TotalOfLast(h, k) ==
  IF k = 0 THEN 0
  ELSE (IF h[Len(h)].score = NoScore THEN 0 ELSE h[Len(h)].score) +
       TotalOfLast(SubSeq(h, 1, Len(h) - 1), k - 1)

C11_ReturnedLevelInRange ==
  \A r \in Slots :
    (reqs[r].kind = "adaptive" /\ reqs[r].pc = "done" /\ reqs[r].status = 200)
      => reqs[r].adaptiveDifficulty \in MinDifficulty..MaxDifficulty

\* chunkText has returned for arguments with chunkSize > overlap >= 0
ChunkedWithOverlapBelowSize ==
  ck.pc = "done" /\ ck.chunkSize > ck.overlap /\ ck.overlap >= 0

\* C16: for size > overlap >= 0 every returned chunk but the last has
\* length exactly size, and the last one is non-empty and no longer than
\* size.
C16_ChunkLengths ==
  ChunkedWithOverlapBelowSize =>
    \A i \in 1..Len(ck.chunks) :
      /\ i < Len(ck.chunks) => Len(ck.chunks[i]) = ck.chunkSize
      /\ i = Len(ck.chunks) =>
           (Len(ck.chunks[i]) >= 1 /\ Len(ck.chunks[i]) <= ck.chunkSize)

\* several chunks with a positive overlap, the last one short
C16_Witness ==
  /\ ChunkedWithOverlapBelowSize
  /\ ck.overlap >= 1
  /\ Len(ck.chunks) >= 2
  /\ Len(ck.chunks[Len(ck.chunks)]) < ck.chunkSize
  /\ \A i \in 1..(Len(ck.chunks) - 1) : Len(ck.chunks[i]) = ck.chunkSize

\* C17: for size > overlap >= 0 the chunk after the i-th one (i counted
\* from 1) is the text from offset i*(size-overlap) on, and its first
\* overlap characters are the last overlap characters of the i-th chunk.
C17_ConsecutiveOverlap ==
  ChunkedWithOverlapBelowSize =>
    \A i \in 1..(Len(ck.chunks) - 1) :
      LET off == i * (ck.chunkSize - ck.overlap)
      IN  /\ ck.chunks[i + 1] =
               JsSlice(ck.text, off, Min(off + ck.chunkSize, Len(ck.text)))
          /\ Len(ck.chunks[i + 1]) >= ck.overlap
          /\ JsSlice(ck.chunks[i + 1], 0, ck.overlap) =
               JsSlice(ck.chunks[i], ck.chunkSize - ck.overlap, ck.chunkSize)

\* three chunks sharing a positive overlap pairwise
C17_Witness ==
  /\ ChunkedWithOverlapBelowSize
  /\ ck.overlap >= 1
  /\ Len(ck.chunks) >= 3
  /\ \E i \in 1..Len(ck.text) : ck.text[i] # ck.text[1]

\* the chunks from the i-th on, each without its first overlap characters
RECURSIVE StripJoin(_, _, _)
StripJoin(chunks, overlap, i) ==
  IF i > Len(chunks) THEN <<>>
  ELSE JsSlice(chunks[i], overlap, Len(chunks[i]))
         \o StripJoin(chunks, overlap, i + 1)

\* the first chunk followed by every later chunk without its overlap
Rejoin(chunks, overlap) ==
  IF chunks = <<>> THEN <<>> ELSE chunks[1] \o StripJoin(chunks, overlap, 2)

\* C18: for size > overlap >= 0 the first chunk followed by every later
\* chunk without its first overlap characters is the text again, and the
\* empty text yields the empty sequence of chunks.
C18_RoundTrip ==
  ChunkedWithOverlapBelowSize =>
    /\ Rejoin(ck.chunks, ck.overlap) = ck.text
    /\ ck.text = <<>> => ck.chunks = <<>>

\* a text of both letters cut into several overlapping chunks
C18_Witness ==
  /\ ChunkedWithOverlapBelowSize
  /\ ck.overlap >= 1
  /\ Len(ck.chunks) >= 2
  /\ Len(ck.text) = MaxTextLen
  /\ ck.text[1] # ck.text[Len(ck.text)]
  /\ Rejoin(ck.chunks, ck.overlap) = ck.text

\* ceil(a / b) for a >= 0, b > 0
CeilDiv(a, b) == (a + b - 1) \div b

\* C19 as stated: for size S > overlap O the number of chunks of a text of
\* length L is at least ceil(L/(S-O)).
C19_AtLeastCeilOfStep ==
  ChunkedWithOverlapBelowSize =>
    Len(ck.chunks) >= CeilDiv(Len(ck.text), ck.chunkSize - ck.overlap)

\* C19 amended: for size S > overlap O the number of chunks of a text of
\* length L is at most ceil(L/(S-O)) and at least ceil(L/S).
C19_ChunkCountBounds ==
  ChunkedWithOverlapBelowSize =>
    /\ Len(ck.chunks) <= CeilDiv(Len(ck.text), ck.chunkSize - ck.overlap)
    /\ Len(ck.chunks) >= CeilDiv(Len(ck.text), ck.chunkSize)

\* several chunks, fewer than ceil(L/(S-O)) and more than ceil(L/S)
C19_Witness ==
  /\ ChunkedWithOverlapBelowSize
  /\ Len(ck.chunks) >= 2
  /\ Len(ck.chunks) < CeilDiv(Len(ck.text), ck.chunkSize - ck.overlap)
  /\ Len(ck.chunks) > CeilDiv(Len(ck.text), ck.chunkSize)

\* the completion call of a /api/chat request is in flight
ChatCallInFlight(r) == reqs[r].kind = "chat" /\ reqs[r].pc = "complete"

\* C20: the messages /api/chat sends to the model are the fixed system
\* instruction, one context message, one mode instruction and then the
\* request's transcript unchanged and in its order; the mode instruction is
\* the feedback one exactly when mode is "feedback" and the questions one
\* for every other mode, a missing one included.
C20_PromptOrder ==
  \A r \in Slots :
    ChatCallInFlight(r) =>
      LET q == reqs[r]
          m == q.chatMessages
      IN  /\ Len(m) = 3 + Len(q.messages)
          /\ m[1] = Msg("system", SystemPrompt)
          /\ m[2].role = "system"
          /\ m[2].content \in {"CONTEXT (from uploaded PDFs)",
                                "No relevant context found"}
          /\ m[2].content = "CONTEXT (from uploaded PDFs)"
               <=> JoinLen(q.contextPieces) > 0
          /\ m[3].role = "system"
          /\ m[3].content = IF q.mode = "feedback" THEN "FEEDBACK MODE"
                            ELSE "QUESTIONS MODE"
          /\ \A i \in 1..Len(q.messages) : m[3 + i] = q.messages[i]

\* a request without a mode is sent under the questions instruction, its
\* two-message transcript following the three system messages in order
C20_Witness ==
  \E r \in Slots :
    /\ ChatCallInFlight(r)
    /\ reqs[r].mode = "none"
    /\ reqs[r].chatMessages[3].content = "QUESTIONS MODE"
    /\ Len(reqs[r].messages) = 2
    /\ reqs[r].messages[1] # reqs[r].messages[2]
    /\ SubSeq(reqs[r].chatMessages, 4, 5) = reqs[r].messages

\* the records of h with the k latest dates
MostRecent(h, k) ==
  { h[i] : i \in { i \in 1..Len(h) :
                     Cardinality({ j \in 1..Len(h) : h[j].date > h[i].date })
                       < k } }

\* the records the controller averages for a request body (index.js 399)
Averaged(body) ==
  { RecentPerformance(body)[i] : i \in 1..Len(RecentPerformance(body)) }

\* C12: when the client requests an adaptive case and holds at least 5
\* performance records, the records the difficulty controller averages are
\* the 5 with the latest dates.
C12_AveragesMostRecentFive ==
  [][ ( /\ inflight.gen.pc = "idle"
        /\ inflight'.gen.pc = "wait"
        /\ Len(app.performanceHistory) >= RecentWindow )
      => Averaged(inflight'.gen.performanceHistory)
           = MostRecent(app.performanceHistory, RecentWindow) ]_vars

\* C13: once the decision for step i is evaluated, currentStep becomes i+1
\* only if canProceed is exactly true and i is not the last step, and stays
\* i otherwise; while the same case stays active currentStep never goes
\* down and never goes up by more than 1.
C13_StepGate ==
  [][ (app.adaptiveCase # NoCase /\ app'.adaptiveCase = app.adaptiveCase)
      => /\ app'.currentStep >= app.currentStep
         /\ app'.currentStep <= app.currentStep + 1
         /\ app'.currentStep = app.currentStep + 1
              => /\ inflight.eval.pc = "wait" /\ inflight'.eval.pc = "idle"
                 /\ app'.stepEvaluations # <<>>
                 /\ app'.stepEvaluations[Len(app'.stepEvaluations)].canProceed
                      = JsonTrue
                 /\ app.currentStep < app.adaptiveCase.steps - 1 ]_vars

\* C14: the case-complete panel is shown only when the recorded decisions
\* are exactly one per step of the active case, the k-th being the one
\* submitted for its step k.
C14_CompleteHasOneDecisionPerStep ==
  CaseComplete(app) =>
    /\ Len(app.stepDecisions) = app.adaptiveCase.steps
    /\ \A k \in 1..Len(app.stepDecisions) :
         /\ app.stepDecisions[k].stepNumber = k
         /\ app.stepDecisions[k].case = app.adaptiveCase.id

\* every recorded decision was submitted for the active case and evaluated
\* with canProceed true
AllProceed(a) ==
  /\ a.adaptiveCase # NoCase
  /\ Len(a.stepEvaluations) = Len(a.stepDecisions)
  /\ \A k \in 1..Len(a.stepDecisions) :
       /\ a.stepDecisions[k].case = a.adaptiveCase.id
       /\ a.stepEvaluations[k].canProceed = JsonTrue

\* C15: in a case of n steps whose decisions are all evaluated with
\* canProceed true, currentStep is k after the k-th submission (k < n), the
\* n-th submission shows the case complete, and the score computed on
\* completion is the arithmetic mean of the n step scores.
C15_StraightRun ==
  [][ /\ AllProceed(app') =>
           LET n == app'.adaptiveCase.steps
               k == Len(app'.stepDecisions)
           IN  /\ k <= n
               /\ k < n => app'.currentStep = k
               /\ (k = n /\ app'.trainingMode = "adaptive")
                    => CaseComplete(app')
               /\ CaseComplete(app') => k = n
      /\ (AllProceed(app) /\ inflight'.saves > inflight.saves) =>
           /\ Len(app.stepEvaluations) = app.adaptiveCase.steps
           /\ inflight'.save.avgScore * app.adaptiveCase.steps
                = SumScores(app.stepEvaluations) ]_vars

\* a three-step case run straight through and completed with mean 0.4
C15_Witness ==
  /\ AllProceed(app)
  /\ CaseComplete(app)
  /\ app.adaptiveCase.steps = 3
  /\ app.currentStep = 2
  /\ SumScores(app.stepEvaluations) = 12
  /\ inflight.saves = 1
  /\ inflight.save.avgScore = 4

\* the model calls a request of each endpoint makes when none fails
CallsOf(kind) == IF kind \in {"chat", "evaluate"} THEN 2 ELSE 1

\* C21: at chat, generate-case, generate-adaptive-case and
\* evaluate-decision a failed embedding or completion call ends the request
\* with a 500 response carrying the endpoint's error message; the call is
\* not made again and nothing else is answered.
C21_CallFailureIs500 ==
  \A r \in Slots :
    (reqs[r].kind \in LlmKinds /\ reqs[r].callFailed) =>
      /\ reqs[r].pc = "done"
      /\ reqs[r].status = 500
      /\ reqs[r].msg = FailMessage(reqs[r].kind)
      /\ reqs[r].calls \in 1..CallsOf(reqs[r].kind)
      /\ reqs[r].chatMessages = <<>>

\* the completion call of a chat request failed after its query embedding
\* had succeeded
C21_Witness ==
  \E r \in Slots :
    /\ reqs[r].kind = "chat" /\ reqs[r].callFailed
    /\ reqs[r].calls = 2 /\ reqs[r].status = 500

\* the chunks of a store in which the word of a token occurs, in any case
ChunksWith(chunks, tok) ==
  { i \in 1..Len(chunks) : \E o \in chunks[i].occ : o.w = tok.w }

\* an assembled /api/chat request that ranked by keywords a one-word query
\* against the three-chunk store it still sees
KeywordQueryOfOneWord(r) ==
  LET q  == reqs[r]
      st == StoreGet(userStores, q.userId)
  IN  /\ q.kind = "chat" /\ q.pc = "complete" /\ q.calls = 1
      /\ st.ver = q.ctxVer
      /\ Len(st.vectors) = 0
      /\ Len(st.chunks) = 3
      /\ Len(LatestUserMessage(q.messages).content) = 1
      /\ LatestUserMessage(q.messages).content[1].len > 2

\* C22: under the keyword strategy a query of one word longer than 2
\* characters that occurs in exactly one of three stored chunks puts that
\* chunk first in the context, and no other chunk.
C22_KeywordRanksTheOneChunk ==
  \A r \in Slots :
    KeywordQueryOfOneWord(r) =>
      LET q    == reqs[r]
          st   == StoreGet(userStores, q.userId)
          with == ChunksWith(st.chunks, LatestUserMessage(q.messages).content[1])
      IN  Cardinality(with) = 1 =>
            \E i \in with : q.contextPieces = << st.chunks[i] >>

\* the query Insulin against the three chunks of summary.pdf picks the
\* third chunk
C22_Witness ==
  \E r \in Slots :
    /\ KeywordQueryOfOneWord(r)
    /\ ChunksWith(StoreGet(userStores, reqs[r].userId).chunks,
                  LatestUserMessage(reqs[r].messages).content[1]) = {3}
    /\ reqs[r].contextPieces = << StoreGet(userStores, reqs[r].userId).chunks[3] >>

\* no component differs from 0: the norm is 0 (the empty vector included)
ZeroNorm(v) == \A i \in 1..Len(v) : v[i] = 0

\* C23: cosineSimilarity(a, b) is 0 whenever a and b differ in length or
\* one of them has norm 0, the all-zero and the empty vector included.
C23_ZeroOnMismatchOrZeroNorm ==
  (cs.pc = "done" /\ (Len(cs.a) # Len(cs.b) \/ ZeroNorm(cs.a) \/ ZeroNorm(cs.b)))
    => (cs.result.sgn = 0 /\ cs.result.num = 0 /\ cs.result.den = 1)

\* a vector against a longer one that continues it
C23_Witness ==
  /\ cs.pc = "done"
  /\ Len(cs.a) = 1 /\ Len(cs.b) = 2
  /\ cs.a[1] = 1 /\ cs.b[1] = 1
  /\ cs.result = CosZero

\* C24: while an adaptive case is shown, is not complete and no evaluation
\* is awaited, a decision can be submitted for the current step; so also
\* after an evaluation with canProceed false on a step before the last.
C24_CanAlwaysSubmit ==
  ( /\ app.trainingMode = "adaptive"
    /\ app.adaptiveCase # NoCase
    /\ ~CaseComplete(app)
    /\ ~app.isEvaluating )
  => CanCommit

\* C25: every recorded decision, and with it its evaluation, was submitted
\* for the case that is active now; after a reset or a new case nothing of
\* an earlier case is recorded and currentStep is not moved by it.
C25_RecordsBelongToActiveCase ==
  /\ \A k \in 1..Len(app.stepDecisions) :
       app.stepDecisions[k].case = app.adaptiveCase.id
  /\ Len(app.stepEvaluations) = Len(app.stepDecisions)
  /\ app.adaptiveCase = NoCase => app.currentStep = 0

\* C26: when uploads of one user overlap, the entry is always the whole
\* result of one of them: the entry changes only in the step where an upload
\* executes its store assignment, and that step puts in the entry the chunks
\* and the vectors of that very upload, tagged as the latest assignment; so
\* the final entry is that of the upload whose assignment executes last.
C26_EntryIsOneUploadsResult ==
  [][\A u \in Users :
       /\ \A r \in Slots :
            UploadCompletes(r) /\ reqs[r].userId = u =>
              userStores'[u].ver = writes + 1
       /\ userStores'[u] # userStores[u] =>
         \E r \in Slots :
           /\ UploadCompletes(r) /\ reqs[r].userId = u
           /\ writes' = writes + 1
           /\ userStores'[u].set /\ userStores'[u].ver = writes'
           /\ userStores'[u].chunks =
                chunkText(ExtractedText(reqs[r].files, EmptyText))
           /\ userStores'[u].vectors \in
                {<<>>} \cup { EmbeddingData(Len(userStores'[u].chunks), sd) :
                                sd \in Seeds }
           /\ Len(userStores'[u].chunks) = reqs'[r].chunkCount]_vars

\* two uploads of one user overlapped, the one that arrived second assigned
\* first, and the entry is the result of the one that arrived first
C26_Witness ==
  \E a, b \in Slots :
    /\ a # b
    /\ reqs[a].kind = "upload" /\ reqs[b].kind = "upload"
    /\ reqs[a].pc = "done" /\ reqs[b].pc = "done"
    /\ reqs[a].status = 200 /\ reqs[b].status = 200
    /\ reqs[a].userId = reqs[b].userId
    /\ reqs[a].arrival = "first" /\ reqs[b].arrival = "second"
    /\ reqs[a].chunkCount # reqs[b].chunkCount
    /\ userStores[reqs[a].userId].ver = 2
    /\ Len(userStores[reqs[a].userId].chunks) = reqs[a].chunkCount
    /\ Len(userStores[reqs[a].userId].vectors) = reqs[a].chunkCount

\* C27: every /api/chat request that reaches prompt assembly sends the
\* "CONTEXT (from uploaded PDFs)" form of the context message, over at least
\* one non-empty chunk; "No relevant context found" is never sent.
C27_ChatAlwaysHasContext ==
  \A r \in Slots :
    ChatCallInFlight(r) =>
      /\ reqs[r].contextMessage = "CONTEXT (from uploaded PDFs)"
      /\ reqs[r].chatMessages[2] = Msg("system", "CONTEXT (from uploaded PDFs)")
      /\ Len(reqs[r].contextPieces) >= 1
      /\ \A k \in 1..Len(reqs[r].contextPieces) :
           reqs[r].contextPieces[k].len > 0

\* a query without a word to score, ranked by keywords over an entry without
\* vectors: the context is the first three of the stored chunks
C27_Witness ==
  \E r \in Slots :
    LET q == reqs[r]
        e == StoreGet(userStores, q.userId)
    IN  /\ ChatCallInFlight(r)
        /\ q.messages = <<Msg("user", <<TokOf>>)>>
        /\ e.ver = q.ctxVer /\ e.vectors = <<>>
        /\ Len(e.chunks) > FallbackChunks
        /\ q.contextPieces = SubSeq(e.chunks, 1, FallbackChunks)
        /\ q.chatMessages[2].content = "CONTEXT (from uploaded PDFs)"

\* C28: an upload whose files yield no text answers 200 with chunkCount 0
\* and replaces the user's entry by one without chunks or vectors; while
\* that entry stands, a chat that passes every other test of the handler is
\* refused with 400 "upload PDFs first".
C28_EmptyUploadReplacesEntry ==
  [][\A r \in Slots :
       /\ ( /\ UploadCompletes(r)
            /\ ExtractedText(reqs[r].files, EmptyText).len = 0 ) =>
              /\ reqs'[r].chunkCount = 0
              /\ userStores'[reqs[r].userId] =
                   [set |-> TRUE, chunks |-> <<>>, vectors |-> <<>>,
                    ver |-> writes + 1]
       /\ ( /\ reqs[r].pc = "idle" /\ reqs'[r].kind = "chat"
            /\ openai /\ reqs'[r].userId \in Users
            /\ HasUserMessage(reqs'[r].messages)
            /\ userStores[reqs'[r].userId].set
            /\ userStores[reqs'[r].userId].chunks = <<>> ) =>
              /\ reqs'[r].pc = "done" /\ reqs'[r].status = 400
              /\ reqs'[r].msg = UploadFirst /\ reqs'[r].calls = 0]_vars

\* the user's first upload stored chunks, a second assignment left an entry
\* without chunks, and the user's chat is refused
C28_Witness ==
  \E a, b \in Slots :
    /\ reqs[a].kind = "upload" /\ reqs[a].pc = "done" /\ reqs[a].status = 200
    /\ reqs[a].arrival = "first" /\ reqs[a].chunkCount >= 1
    /\ reqs[b].kind = "chat" /\ reqs[b].pc = "done" /\ reqs[b].status = 400
    /\ reqs[b].msg = UploadFirst /\ reqs[b].userId = reqs[a].userId
    /\ HasUserMessage(reqs[b].messages)
    /\ userStores[reqs[a].userId] =
         [set |-> TRUE, chunks |-> <<>>, vectors |-> <<>>, ver |-> 2]

\* C29: a repeated adaptive-case request that sends the history of the
\* previous request and, as its level, the level the previous response
\* carried, is answered with that same level: the client's difficulty after
\* the second and later requests is its difficulty after the first.
C29_RepeatedRequestKeepsLevel ==
  [][( /\ inflight.gen.pc = "wait" /\ inflight'.gen.pc = "idle"
       /\ app'.adaptiveCase # app.adaptiveCase
       /\ inflight.served # NotServed
       /\ inflight.gen.performanceHistory = inflight.served.performanceHistory
       /\ inflight.gen.difficultyLevel = inflight.served.difficultyLevel )
       => app'.difficultyLevel = inflight.served.difficultyLevel]_vars

\* C30: keyword scoring is total: a /api/chat request that passes the
\* handler's tests and is ranked by keywords (the entry has chunks and no
\* vectors) goes on to the model call, whatever tokens its query holds.
C30_KeywordChatReachesModel ==
  [][\A r \in Slots :
       ( /\ reqs[r].pc = "idle" /\ reqs'[r].kind = "chat"
         /\ openai /\ reqs'[r].userId \in Users
         /\ HasUserMessage(reqs'[r].messages)
         /\ Len(userStores[reqs'[r].userId].chunks) > 0
         /\ Len(userStores[reqs'[r].userId].vectors) = 0 )
         => /\ reqs'[r].pc = "complete" /\ reqs'[r].calls = 1
            /\ reqs'[r].status # 500]_vars

====
